---- MODULE Spec2Model ----
(***************************************************************************)
(* The manual agentic loop of lesson2/agent_raw_api.py (run_agent) with    *)
(* its tool executor (execute_tool), driven by a generation service and a  *)
(* profile endpoint that are external to the program.                      *)
(*                                                                         *)
(* Strings the program only passes around are modelled by tokens: a text   *)
(* block's text is the pair <<turn, position>> of the response that        *)
(* carries it (the empty string is <<>>), and a tool_use id is the pair    *)
(* <<turn, position>> too, since the service issues a fresh id per block.  *)
(* The console output, and with it the debug-only trace of thoughts, is    *)
(* left out.                                                               *)
(***************************************************************************)
EXTENDS Naturals, Integers, Sequences, FiniteSets, TLC

MAX_TURNS == 5

\* Bounds of the environment, not of the program.
MaxBlocks == 2      \* content blocks in one response of the service
MaxChanges == 1     \* times the service changes the form of its responses

--------------------------------------------------------------------------
(* The environment: responses of client.messages.create and requests.get  *)

StopReasons == {"end_turn", "tool_use", "max_tokens"}

ProfileUrls == {"ok_url", "missing_url", "timeout_url"}

ToolRequests ==
    [name : {"fetch_linkedin_profile"}, input : [profile_url : ProfileUrls]]
    \cup {[name |-> "web_search", input |-> [profile_url |-> "ok_url"]]}

BlockTypes == {"text", "tool_use"}

Shapes == UNION {[1..n -> BlockTypes] : n \in 0..MaxBlocks}

\* A response form: the block types in order, the tool every tool_use block
\* of the response asks for, and the stop reason.  The first response is of
\* any form; a later one repeats the form of the one before it or, at most
\* MaxChanges times in a run, changes one thing.
Forms == [shape : Shapes, tool : ToolRequests, stop_reason : StopReasons]

\* The content of the response of form f received in 1-based turn t.
ResponseContent(f, t) ==
    [i \in 1..Len(f.shape) |->
        IF f.shape[i] = "text"
        THEN [type |-> "text", text |-> <<t, i>>]
        ELSE [type |-> "tool_use", id |-> <<t, i>>,
              name |-> f.tool.name, input |-> f.tool.input]]

\* response.usage: the request grows with the history, the answer with its
\* blocks.
Usage(msgs, content) ==
    [input_tokens |-> Len(msgs), output_tokens |-> Len(content) + 1]

\* Shapes one block apart: one block replaced, or a last block added or
\* dropped.
OneBlockApart(s, t) ==
    \/ /\ Len(s) = Len(t)
       /\ Cardinality({i \in 1..Len(s) : s[i] # t[i]}) = 1
    \/ /\ Len(t) = Len(s) + 1
       /\ SubSeq(t, 1, Len(s)) = s
    \/ /\ Len(s) = Len(t) + 1
       /\ SubSeq(s, 1, Len(t)) = t

\* The service changes one thing from a response of form f to the next, of
\* form g: one block of the shape, or the tool asked for, or the stop reason.
OneChangeApart(f, g) ==
    \/ /\ OneBlockApart(f.shape, g.shape)
       /\ f.tool = g.tool /\ f.stop_reason = g.stop_reason
    \/ /\ f.tool # g.tool
       /\ f.shape = g.shape /\ f.stop_reason = g.stop_reason
    \/ /\ f.stop_reason # g.stop_reason
       /\ f.shape = g.shape /\ f.tool = g.tool

\* requests.get against the profile endpoint, stubbed per URL.
requests_get(url) ==
    CASE url = "ok_url"      -> [raised |-> FALSE, status_code |-> 200]
      [] url = "missing_url" -> [raised |-> FALSE, status_code |-> 404]
      [] OTHER               -> [raised |-> TRUE,  status_code |-> 0]

--------------------------------------------------------------------------
(* execute_tool                                                            *)

ErrorTexts ==
    {"API error 404: Not Found", "Exception: timed out",
     "Unknown tool: web_search"}

execute_tool(tool_name, tool_input) ==
    IF tool_name = "fetch_linkedin_profile"
    THEN LET response == requests_get(tool_input.profile_url) IN
         IF response.raised THEN "Exception: timed out"
         ELSE IF response.status_code = 200 THEN "{profile json}"
         ELSE "API error 404: Not Found"
    ELSE "Unknown tool: web_search"

--------------------------------------------------------------------------
(* run_agent                                                               *)

VARIABLES
    pc,               \* "loop", "exec", "summary", "done", "raised"
    turn,             \* the loop variable of `for turn in range(MAX_TURNS)`
    messages,         \* the conversation history
    metrics,          \* the metrics dict
    text_response,    \* local: text of the last text block of the response
    tool_use_blocks,  \* local: tool_use blocks of the response
    tool_results,     \* local: results of the tools executed so far
    ret,              \* what run_agent gave its caller
    form,             \* environment: form of the last response
    changes,          \* environment: changes of form so far
    requests,         \* history: the arguments of each create call
    executed,         \* history: the calls of execute_tool
    fetch,            \* a call of the MCP tool fetch_linkedin_profile
    entry_point,      \* a run of one of the entry points
    parse,            \* a call of parse_react_components
    reflection,       \* a call of research_with_reflection
    review,           \* a call of request_human_review
    chain,            \* a call of chained_workflow
    twin              \* two calls of run_agent, with and without debug

agent_vars == <<pc, turn, messages, metrics, text_response, tool_use_blocks,
                tool_results, ret, form, changes, requests, executed>>

\* The variables of the functions that are called on their own.
unit_vars == <<parse, reflection, review, chain, twin>>

vars == <<pc, turn, messages, metrics, text_response, tool_use_blocks,
          tool_results, ret, form, changes, requests, executed, fetch,
          entry_point, parse, reflection, review, chain, twin>>

user_prompt == "Research this LinkedIn profile"

Init ==
    /\ pc = "loop"
    /\ turn = 0
    /\ messages = <<[role |-> "user", content |-> user_prompt]>>
    /\ metrics = [turns |-> 0,
                  total_input_tokens |-> 0,
                  total_output_tokens |-> 0,
                  tool_calls |-> <<>>,
                  api_calls |-> <<>>,
                  pattern |-> "ReAct"]
    /\ text_response = <<>>
    /\ tool_use_blocks = <<>>
    /\ tool_results = <<>>
    /\ ret = [kind |-> "none"]
    /\ form = [shape |-> <<>>, stop_reason |-> "end_turn",
               tool |-> [name |-> "web_search",
                         input |-> [profile_url |-> "ok_url"]]]
    /\ changes = 0
    /\ requests = <<>>
    /\ executed = <<>>
    /\ fetch = [pc |-> "idle"]
    /\ entry_point = [pc |-> "idle"]
    /\ parse = [pc |-> "idle"]
    /\ reflection = [pc |-> "idle"]
    /\ review = [pc |-> "idle"]
    /\ chain = [pc |-> "idle"]
    /\ twin = [pc |-> "idle"]

\* The static arguments of every create call.
SYSTEM_PROMPT == "You are an AI sales assistant specializing in LinkedIn research."
TOOLS == <<[name |-> "fetch_linkedin_profile",
            input_schema |-> [required |-> <<"profile_url">>]]>>

\* Mutant: only the newest entry of the history is sent.
RequestMessagesLatestOnly(msgs) == <<msgs[Len(msgs)]>>

\* Mutant: the request is built before the newest entry is in the history.
RequestMessagesStale(msgs) ==
    IF Len(msgs) > 1 THEN SubSeq(msgs, 1, Len(msgs) - 1) ELSE msgs

\* `messages=messages` of the create call: the whole history.
RequestMessages(msgs) == msgs

\* The keyword arguments of client.messages.create.
CreateRequest(msgs) ==
    [system |-> SYSTEM_PROMPT, tools |-> TOOLS,
     messages |-> RequestMessages(msgs)]

\* Mutant: the new entry overwrites the newest one.
AppendEntryOverwrites(msgs, entry) ==
    [msgs EXCEPT ![Len(msgs)] = entry] \o <<entry>>

\* `messages.append(...)`
AppendEntry(msgs, entry) == Append(msgs, entry)

IsToolUse(block) == block.type = "tool_use"

\* Mutant: only the tool_use blocks are kept.
AssistantContentDropsText(content) ==
    LET uses == SelectSeq(content, LAMBDA b : b.type = "tool_use") IN
    [i \in 1..Len(uses) |->
        [type |-> "tool_use", id |-> uses[i].id,
         name |-> uses[i].name, input |-> uses[i].input]]

\* The blocks appended to assistant_content: text and tool_use blocks, each
\* rebuilt field by field.
AssistantContent(content) ==
    [i \in 1..Len(content) |->
        IF content[i].type = "text"
        THEN [type |-> "text", text |-> content[i].text]
        ELSE [type |-> "tool_use", id |-> content[i].id,
              name |-> content[i].name, input |-> content[i].input]]

\* Mutant: the first text block is kept instead of the last.
RECURSIVE TextResponseKeepsFirst(_, _)
TextResponseKeepsFirst(content, acc) ==
    IF content = <<>> THEN acc
    ELSE TextResponseKeepsFirst(Tail(content),
                                IF Head(content).type = "text" /\ acc = <<>>
                                THEN Head(content).text ELSE acc)

\* text_response after the loop over response.content: "" and then
\* overwritten by every text block.
RECURSIVE TextResponse(_, _)
TextResponse(content, acc) ==
    IF content = <<>> THEN acc
    ELSE TextResponse(Tail(content),
                      IF Head(content).type = "text"
                      THEN Head(content).text ELSE acc)

\* Mutant: a request repeating the name and input of an earlier block of the
\* response is dropped.
ToolUseBlocksDeduplicated(content) ==
    LET uses == SelectSeq(content, IsToolUse) IN
    SelectSeq(uses, LAMBDA b :
        \A i \in 1..Len(uses) :
            (uses[i].name = b.name /\ uses[i].input = b.input)
                => uses[i].id[2] >= b.id[2])

ToolUseBlocks(content) == SelectSeq(content, IsToolUse)

\* The entries appended to metrics["tool_calls"] for one response.
ToolCallEntries(content, t) ==
    LET blocks == ToolUseBlocks(content) IN
    [i \in 1..Len(blocks) |->
        [turn |-> t, tool |-> blocks[i].name, input |-> blocks[i].input]]

\* Mutant: only the stop reason ends the loop.
AgentCompleteNeedsEndTurn(stop_reason, blocks) ==
    stop_reason = "end_turn"

\* Mutant: every stop reason but "tool_use" ends the loop.
AgentCompleteUnlessToolUse(stop_reason, blocks) ==
    stop_reason # "tool_use" \/ blocks = <<>>

\* Mutant: the record carries the 0-based loop variable.
ApiCallRecordZeroBased(t, usage, stop_reason) ==
    [turn |-> t, input_tokens |-> usage.input_tokens,
     output_tokens |-> usage.output_tokens, stop_reason |-> stop_reason]

\* The dict appended to metrics["api_calls"] in the iteration with index t.
ApiCallRecord(t, usage, stop_reason) ==
    [turn |-> t + 1, input_tokens |-> usage.input_tokens,
     output_tokens |-> usage.output_tokens, stop_reason |-> stop_reason]

\* `if response.stop_reason == "end_turn" or not tool_use_blocks: break`
AgentComplete(stop_reason, blocks) ==
    stop_reason = "end_turn" \/ blocks = <<>>

\* Mutant: one iteration too many.
MoreTurnsOffByOne(t) == t + 1 <= MAX_TURNS

\* The for loop has another iteration after the one with index t.
MoreTurns(t) == t + 1 < MAX_TURNS

\* One iteration up to the termination check: count the turn, call the
\* service, account the tokens, process the content, append the assistant
\* entry, then break or go on to the tools.
GenerationCall(f) ==
    /\ pc = "loop"
    /\ \/ turn = 0
       \/ f = form
       \/ changes < MaxChanges /\ OneChangeApart(form, f)
    /\ LET content  == ResponseContent(f, turn + 1)
           usage    == Usage(messages, content)
           blocks   == ToolUseBlocks(content)
       IN
       /\ requests' = Append(requests, CreateRequest(messages))
       /\ metrics' =
            [metrics EXCEPT
               !.turns = @ + 1,
               !.total_input_tokens = @ + usage.input_tokens,
               !.total_output_tokens = @ + usage.output_tokens,
               !.api_calls = Append(@, ApiCallRecord(turn, usage,
                                                     f.stop_reason)),
               !.tool_calls = @ \o ToolCallEntries(content, turn + 1)]
       /\ text_response' = TextResponse(content, <<>>)
       /\ tool_use_blocks' = blocks
       /\ tool_results' = <<>>
       /\ messages' = AppendEntry(messages,
                                  [role |-> "assistant",
                                   content |-> AssistantContent(content)])
       /\ pc' = IF AgentComplete(f.stop_reason, blocks)
                THEN "summary" ELSE "exec"
    /\ form' = f
    /\ changes' = IF turn = 0 \/ f = form THEN changes ELSE changes + 1
    /\ UNCHANGED <<turn, ret, executed, fetch, entry_point, unit_vars>>

\* client.messages.create raises: nothing in run_agent catches it.
GenerationError ==
    /\ pc = "loop"
    /\ requests' = Append(requests, CreateRequest(messages))
    /\ metrics' = [metrics EXCEPT !.turns = @ + 1]
    /\ ret' = [kind |-> "exception", error |-> "APIError"]
    /\ pc' = "raised"
    /\ UNCHANGED <<turn, messages, text_response, tool_use_blocks,
                   tool_results, form, changes, executed, fetch, entry_point, unit_vars>>

\* Mutant: the tool loop runs over the blocks from the last to the first.
NextToolBlockReversed(blocks, results) == blocks[Len(blocks) - Len(results)]

\* Mutant: the tool loop never advances past the first block.
NextToolBlockStuck(blocks, results) == blocks[1]

\* The block the tool loop executes next.
NextToolBlock(blocks, results) == blocks[Len(results) + 1]

\* Mutant: the text of a failure is not passed on.
ToolResultBlockDropsError(tool_block, result) ==
    [type |-> "tool_result", tool_use_id |-> tool_block.id,
     content |-> IF result \in ErrorTexts THEN "" ELSE result]

\* Mutant: the result is stored as a text block.
ToolResultBlockAsText(tool_block, result) ==
    [type |-> "text", tool_use_id |-> tool_block.id, content |-> result]

\* The dict appended to tool_results.
ToolResultBlock(tool_block, result) ==
    [type |-> "tool_result", tool_use_id |-> tool_block.id,
     content |-> result]

\* One iteration of `for tool_block in tool_use_blocks`.
ExecuteTool ==
    /\ pc = "exec"
    /\ Len(tool_results) < Len(tool_use_blocks)
    /\ LET tool_block == NextToolBlock(tool_use_blocks, tool_results)
           result == execute_tool(tool_block.name, tool_block.input)
       IN
       /\ tool_results' = Append(tool_results,
                                 ToolResultBlock(tool_block, result))
       /\ executed' = Append(executed,
                             [turn |-> turn + 1, id |-> tool_block.id,
                              name |-> tool_block.name,
                              input |-> tool_block.input,
                              result |-> result])
    /\ UNCHANGED <<pc, turn, messages, metrics, text_response,
                   tool_use_blocks, ret, form, changes, requests, fetch,
                   entry_point, unit_vars>>

\* `messages.append({"role": "user", "content": tool_results})` and the
\* step of the for loop.
AppendToolResults ==
    /\ pc = "exec"
    /\ Len(tool_results) = Len(tool_use_blocks)
    /\ messages' = AppendEntry(messages, [role |-> "user",
                                           content |-> tool_results])
    /\ turn' = turn + 1
    /\ pc' = IF MoreTurns(turn) THEN "loop" ELSE "summary"
    /\ UNCHANGED <<metrics, text_response, tool_use_blocks, tool_results,
                   ret, form, changes, requests, executed, fetch, entry_point, unit_vars>>

\* Cost in millionths of a dollar: 0.003 and 0.015 dollars per 1000 tokens.
TotalCost(m) == m.total_input_tokens * 3 + m.total_output_tokens * 15

\* The code after the loop: the two last keys of metrics, and the return.
Return ==
    /\ pc = "summary"
    /\ metrics' = metrics @@ [final_response |-> text_response,
                              total_cost_usd |-> TotalCost(metrics)]
    /\ ret' = [kind |-> "return", value |-> metrics']
    /\ pc' = "done"
    /\ UNCHANGED <<turn, messages, text_response, tool_use_blocks,
                   tool_results, form, changes, requests, executed, fetch,
                   entry_point, unit_vars>>

Next ==
    \/ \E f \in Forms : GenerationCall(f)
    \/ GenerationError
    \/ ExecuteTool
    \/ AppendToolResults
    \/ Return

Spec == Init /\ [][Next]_vars

--------------------------------------------------------------------------
\* The MCP tool fetch_linkedin_profile of tools/linkedin.py and the entry
\* points of lesson2, each called on its own.

\* Bound: the longest `experiences` list of a profile.
MaxExperiences == 2

StringKeys == {"first_name", "last_name", "headline", "location", "industry"}
ListKeys == {"experiences", "education"}
DataKeys == StringKeys \cup ListKeys

\* One element of `experiences`; the second has no "company" key.
Experiences == {[company |-> "NVIDIA", title |-> "CEO"],
                [title |-> "Founder"]}

ExperienceLists == UNION {[1..n -> Experiences] : n \in 0..MaxExperiences}

\* The value Python takes for false under a key.
Falsy(key) == IF key \in ListKeys THEN <<>> ELSE ""

\* The JSON objects the endpoint answers with: `has` is the set of keys of
\* the object, and a key it has carries a value or an empty one.
ProfileData ==
    {d \in [has : SUBSET DataKeys,
            first_name : {"", "Jensen"},
            last_name : {""},
            headline : {"", "CEO at NVIDIA"},
            location : {"", "Santa Clara"},
            industry : {""},
            experiences : ExperienceLists,
            education : {<<>>, <<"Stanford">>}] :
        \A key \in DataKeys \ d.has : d[key] = Falsy(key)}

\* dict.get(key, default)
Get(d, key, default) == IF key \in d.has THEN d[key] ELSE default

\* `not profile_data.get(key)`
Lacks(d, key) == Get(d, key, Falsy(key)) = Falsy(key)

When(cond, item) == IF cond THEN <<item>> ELSE <<>>

\* Mutant: a score of 80 is not yet "high".
DataQualityAboveEighty(score) ==
    IF score > 80 THEN "high" ELSE IF score >= 50 THEN "medium" ELSE "low"

\* Lines 70-75: the quality of a completeness score.
DataQuality(score) ==
    IF score >= 80 THEN "high" ELSE IF score >= 50 THEN "medium" ELSE "low"

analyze_profile_quality(profile_data) ==
    LET missing_fields ==
            When(Lacks(profile_data, "first_name"), "first_name")
            \o When(Lacks(profile_data, "experiences"), "work_experience")
            \o When(Lacks(profile_data, "headline"), "headline")
            \o When(Lacks(profile_data, "education"), "education")
            \o When(Lacks(profile_data, "location"), "location")
        \* round(present / 5 * 100) is present * 20
        score == (5 - Len(missing_fields)) * 20
        suggestions ==
            When(Lacks(profile_data, "first_name"),
                 "Name not found - verify URL is correct")
            \o (IF Lacks(profile_data, "experiences")
                THEN <<"No work history - may need web search for context">>
                ELSE When(Len(Get(profile_data, "experiences", <<>>)) < 2,
                          "Limited work history - consider supplementing"))
            \o When(Lacks(profile_data, "headline"),
                    "No headline - role may be unclear")
            \o When(DataQuality(score) = "low",
                    "Profile data is incomplete - consider alternatives")
    IN [completeness_score |-> score,
        missing_fields |-> missing_fields,
        data_quality |-> DataQuality(score),
        suggestions |-> suggestions]

\* current_exp.get(key, "Unknown")
ExperienceGet(exp, key) == IF key \in DOMAIN exp THEN exp[key] ELSE "Unknown"

\* The `result` dict of the 200 branch.
ProfileResult(data) ==
    LET experiences == Get(data, "experiences", <<>>)
        has_current == ~Lacks(data, "experiences")
    IN [first_name |-> Get(data, "first_name", "Unknown"),
        last_name |-> Get(data, "last_name", ""),
        headline |-> Get(data, "headline", ""),
        company |-> IF has_current
                    THEN ExperienceGet(experiences[1], "company")
                    ELSE "None",
        title |-> IF has_current
                  THEN ExperienceGet(experiences[1], "title")
                  ELSE "None",
        location |-> Get(data, "location", ""),
        industry |-> Get(data, "industry", ""),
        experiences |-> experiences,
        education |-> Get(data, "education", <<>>),
        profile_quality |-> analyze_profile_quality(data)]

EmptyData == [has |-> {}, first_name |-> "", last_name |-> "",
              headline |-> "", location |-> "", industry |-> "",
              experiences |-> <<>>, education |-> <<>>]

\* What requests.get and response.json() do: an answer with a status code
\* and a body that is a JSON object, another JSON value or no JSON at all,
\* a timeout, or another exception.
HttpOutcomes ==
    [kind : {"response"}, status_code : {200}, body : {"object"},
     data : ProfileData]
    \cup [kind : {"response"}, status_code : {200},
          body : {"not_json", "not_object"}, data : {EmptyData}]
    \cup [kind : {"response"}, status_code : {404, 429, 500},
          body : {"not_json"}, data : {EmptyData}]
    \cup [kind : {"timeout", "exception"}, status_code : {0},
          body : {"not_json"}, data : {EmptyData}]

\* The profile was fetched.
Fetched(outcome) ==
    /\ outcome.kind = "response"
    /\ outcome.status_code = 200
    /\ outcome.body = "object"

ErrorResult(text) ==
    [content |-> <<[type |-> "text", text |-> <<text>>]>>, is_error |-> TRUE]

\* The dict the try statement of fetch_linkedin_profile returns.
FetchResult(outcome) ==
    IF outcome.kind = "timeout"
    THEN ErrorResult("Error: Request timed out.")
    ELSE IF outcome.kind = "exception"
    THEN ErrorResult("Error: Exception occurred")
    ELSE IF outcome.status_code = 200
    THEN IF outcome.body = "object"
         THEN [content |->
                 <<[type |-> "text",
                    text |-> <<"Successfully fetched LinkedIn profile:",
                               ProfileResult(outcome.data)>>]>>]
         \* response.json() or data.get raises inside the try
         ELSE ErrorResult("Error: Exception occurred")
    ELSE IF outcome.status_code = 404
    THEN ErrorResult("Error: Profile not found.")
    ELSE IF outcome.status_code = 429
    THEN ErrorResult("Error: Rate limited.")
    ELSE ErrorResult("Error fetching profile: API returned")

\* The args the SDK hands to the tool; the last has no "profile_url" key.
ToolArgs == [profile_url : ProfileUrls] \cup {[url |-> "ok_url"]}

\* `profile_url = args["profile_url"]`, before the try statement.
FetchCall(args) ==
    /\ fetch.pc = "idle"
    /\ entry_point.pc = "idle"
    /\ fetch' = IF "profile_url" \in DOMAIN args
                THEN [pc |-> "request", args |-> args,
                      profile_url |-> args["profile_url"]]
                ELSE [pc |-> "raised", args |-> args, error |-> "KeyError"]
    /\ UNCHANGED <<agent_vars, entry_point, unit_vars>>

\* The try statement: the request, its branches and its handlers.
FetchResponse(outcome) ==
    /\ fetch.pc = "request"
    /\ fetch' = [pc |-> "returned", args |-> fetch.args,
                 profile_url |-> fetch.profile_url,
                 outcome |-> outcome, result |-> FetchResult(outcome)]
    /\ UNCHANGED <<agent_vars, entry_point, unit_vars>>

EntryPoints == {"research_agent_v2.main", "agent_raw_api.run_agent",
                "agent_with_sdk.main"}

\* os.getenv("LAMINAR_API_KEY")
LaminarKeys == {"unset", "set"}

\* The tracing library: usable, not installed, or failing to initialise.
Tracers == {"ok", "not_installed", "init_fails"}

\* init_observability of utils/observability.py: every path returns.
init_observability(api_key, tracer) ==
    IF api_key = "unset" THEN [kind |-> "return", value |-> FALSE]
    ELSE IF tracer = "ok" THEN [kind |-> "return", value |-> TRUE]
    ELSE [kind |-> "return", value |-> FALSE]

\* The module of the entry point was imported: agent_with_sdk and
\* agent_raw_api import lmnr at module level, and agent_raw_api calls
\* Laminar.initialize there when the key is set; research_agent_v2 imports
\* utils.observability only.
Importable(name, api_key, tracer) ==
    name # "research_agent_v2.main" =>
        /\ tracer # "not_installed"
        /\ (name = "agent_raw_api.run_agent" /\ api_key = "set")
              => tracer = "ok"

\* An entry point is called in an environment.
EntryStart(name, api_key, tracer) ==
    /\ entry_point.pc = "idle"
    /\ fetch.pc = "idle"
    /\ Importable(name, api_key, tracer)
    /\ entry_point' = [pc |-> "main", name |-> name, api_key |-> api_key,
                       tracer |-> tracer, observability_enabled |-> FALSE,
                       researched |-> FALSE, result |-> "None",
                       error |-> "none"]
    /\ UNCHANGED <<agent_vars, fetch, unit_vars>>

\* research_agent_v2.main up to the research.
V2MainInit ==
    /\ entry_point.pc = "main"
    /\ entry_point.name = "research_agent_v2.main"
    /\ LET enabled == init_observability(entry_point.api_key,
                                         entry_point.tracer)
       IN entry_point' = [entry_point EXCEPT
                            !.pc = "research",
                            !.observability_enabled = enabled.value]
    /\ UNCHANGED <<agent_vars, fetch, unit_vars>>

\* agent_with_sdk.main: `if not api_key: ... return`
SdkMainCheckKey ==
    /\ entry_point.pc = "main"
    /\ entry_point.name = "agent_with_sdk.main"
    /\ entry_point' =
         IF entry_point.api_key = "unset"
         THEN [entry_point EXCEPT !.pc = "returned"]
         ELSE [entry_point EXCEPT !.pc = "initialize"]
    /\ UNCHANGED <<agent_vars, fetch, unit_vars>>

\* agent_with_sdk.main: `Laminar.initialize(project_api_key=api_key)`
SdkMainInitialize ==
    /\ entry_point.pc = "initialize"
    /\ entry_point' =
         IF entry_point.tracer = "init_fails"
         THEN [entry_point EXCEPT !.pc = "raised", !.error = "Exception"]
         ELSE [entry_point EXCEPT !.pc = "research",
                                  !.observability_enabled = TRUE]
    /\ UNCHANGED <<agent_vars, fetch, unit_vars>>

\* run_agent is called: it does not look at the tracer.
RunAgentCall ==
    /\ entry_point.pc = "main"
    /\ entry_point.name = "agent_raw_api.run_agent"
    /\ entry_point' = [entry_point EXCEPT !.pc = "research"]
    /\ UNCHANGED <<agent_vars, fetch, unit_vars>>

\* The research of the entry point, and the return of its result.
Research ==
    /\ entry_point.pc = "research"
    /\ entry_point' = [entry_point EXCEPT !.pc = "returned",
                                          !.researched = TRUE,
                                          !.result = "result"]
    /\ UNCHANGED <<agent_vars, fetch, unit_vars>>

SdkNext ==
    \/ \E args \in ToolArgs : FetchCall(args)
    \/ \E outcome \in HttpOutcomes : FetchResponse(outcome)
    \/ \E name \in EntryPoints, api_key \in LaminarKeys, tracer \in Tracers :
          EntryStart(name, api_key, tracer)
    \/ V2MainInit
    \/ SdkMainCheckKey
    \/ SdkMainInitialize
    \/ RunAgentCall
    \/ Research

SdkSpec == Init /\ [][SdkNext]_vars

--------------------------------------------------------------------------
\* parse_react_components of agent_raw_api.py, called on its own.

\* Bound: the most lines of a text.
MaxLines == 3

\* A string is a sequence of characters.  What follows the prefix of a line,
\* or the whole of a line without prefix.
Bodies == {<<>>, <<" ", "a">>, <<"b", " ">>}

\* A line: the prefix it starts with, "" for neither, and the rest of it.
Lines == [prefix : {"", "Thought:", "Final Answer:"}, body : Bodies]

\* text.split('\n') has at least one line.
Texts == UNION {[1..n -> Lines] : n \in 1..MaxLines}

RECURSIVE LStrip(_)
LStrip(str) ==
    IF str # <<>> /\ Head(str) = " " THEN LStrip(Tail(str)) ELSE str

RECURSIVE RStrip(_)
RStrip(str) ==
    IF str # <<>> /\ str[Len(str)] = " "
    THEN RStrip(SubSeq(str, 1, Len(str) - 1))
    ELSE str

\* str.strip()
Strip(str) == RStrip(LStrip(str))

\* ' '.join(parts)
RECURSIVE Join(_)
Join(parts) ==
    IF parts = <<>> THEN <<>>
    ELSE IF Len(parts) = 1 THEN parts[1]
    ELSE parts[1] \o <<" ">> \o Join(Tail(parts))

\* The locals of parse_react_components before the loop; final_answer is
\* <<>> for None and <<string>> for a string.
ParseStart ==
    [thoughts |-> <<>>, final_answer |-> <<>>,
     current_component |-> "None", current_content |-> <<>>]

\* `if current_component == "thought" and current_content: ...append(...)`
SaveThought(st) ==
    IF st.current_component = "thought" /\ st.current_content # <<>>
    THEN Append(st.thoughts, Strip(Join(st.current_content)))
    ELSE st.thoughts

\* Mutant: a "Thought:" line does not save the thought before it.
ParseLineForgetsThought(st, line) ==
    IF line.prefix = "Thought:"
    THEN [st EXCEPT !.current_component = "thought",
                    !.current_content = <<Strip(line.body)>>]
    ELSE IF line.prefix = "Final Answer:"
    THEN [st EXCEPT !.thoughts = SaveThought(st),
                    !.current_component = "final_answer",
                    !.current_content = <<Strip(line.body)>>]
    ELSE IF st.current_component # "None"
    THEN [st EXCEPT !.current_content = Append(@, Strip(line.body))]
    ELSE st

\* One iteration of `for line in lines`.
ParseLine(st, line) ==
    IF line.prefix = "Thought:"
    THEN [st EXCEPT !.thoughts = SaveThought(st),
                    !.current_component = "thought",
                    !.current_content = <<Strip(line.body)>>]
    ELSE IF line.prefix = "Final Answer:"
    THEN [st EXCEPT !.thoughts = SaveThought(st),
                    !.current_component = "final_answer",
                    !.current_content = <<Strip(line.body)>>]
    ELSE IF st.current_component # "None"
    THEN [st EXCEPT !.current_content = Append(@, Strip(line.body))]
    ELSE st

RECURSIVE ParseLines(_, _)
ParseLines(st, lines) ==
    IF lines = <<>> THEN st
    ELSE ParseLines(ParseLine(st, Head(lines)), Tail(lines))

\* The code after the loop: the last component is saved.
SaveLast(st) ==
    IF st.current_component = "thought" /\ st.current_content # <<>>
    THEN [st EXCEPT !.thoughts = SaveThought(st)]
    ELSE IF /\ st.current_component = "final_answer"
            /\ st.current_content # <<>>
    THEN [st EXCEPT !.final_answer = <<Strip(Join(st.current_content))>>]
    ELSE st

parse_react_components(text) ==
    LET st == SaveLast(ParseLines(ParseStart, text)) IN
    [thoughts |-> st.thoughts, final_answer |-> st.final_answer,
     raw_text |-> text]

ParseCall(text) ==
    /\ parse.pc = "idle"
    /\ parse' = [pc |-> "called", text |-> text]
    /\ UNCHANGED <<agent_vars, fetch, entry_point, reflection, review,
                   chain, twin>>

ParseReturn ==
    /\ parse.pc = "called"
    /\ parse' = [pc |-> "returned", text |-> parse.text,
                 components |-> parse_react_components(parse.text)]
    /\ UNCHANGED <<agent_vars, fetch, entry_point, reflection, review,
                   chain, twin>>

ParseNext ==
    \/ \E text \in Texts : ParseCall(text)
    \/ ParseReturn

ParseSpec == Init /\ [][ParseNext]_vars

--------------------------------------------------------------------------
\* research_with_reflection of research_agent_v2.py with the LLMTracker of
\* utils/observability.py, called on its own.

\* Bound: the most assistant messages of one response stream.
MaxMessages == 2

STAGES == 3

\* The messages of client.receive_response(): assistant messages with a
\* text block or a tool_use block, and the ResultMessage that ends the
\* stream.
StreamMessages == {"assistant_text", "assistant_tool_use", "result"}

GenerationNames ==
    <<"Turn 1: V1 Research", "Turn 2: External Feedback (HITL)",
      "Turn 3: Reflection -> V2">>

\* Mutant: the reflection prompt is formatted with the V1 research.
StagePromptEmbedsV1(stage, linkedin_url, responses) ==
    IF stage = 1
    THEN [template |-> "V1_RESEARCH_PROMPT",
          args |-> [linkedin_url |-> linkedin_url]]
    ELSE IF stage = 2
    THEN [template |-> "VALIDATION_PROMPT"]
    ELSE [template |-> "REFLECTION_PROMPT",
          args |-> [feedback |-> responses[1],
                    criteria |-> "RESEARCH_CRITERIA"]]

\* The prompt of a stage: the template and the keywords it is formatted
\* with.
StagePrompt(stage, linkedin_url, responses) ==
    IF stage = 1
    THEN [template |-> "V1_RESEARCH_PROMPT",
          args |-> [linkedin_url |-> linkedin_url]]
    ELSE IF stage = 2
    THEN [template |-> "VALIDATION_PROMPT"]
    ELSE [template |-> "REFLECTION_PROMPT",
          args |-> [feedback |-> responses[2],
                    criteria |-> "RESEARCH_CRITERIA"]]

\* The dict of the return statement in the with block.
SuccessResult(r) ==
    [success |-> TRUE, v1_research |-> r.responses[1],
     feedback |-> r.responses[2], v2_research |-> r.responses[3],
     linkedin_url |-> r.linkedin_url]

\* The dict of the return statement in the except clause.
FailureResult(r) ==
    [success |-> FALSE, error |-> r.error, linkedin_url |-> r.linkedin_url]

reflection_others == <<agent_vars, fetch, entry_point, parse, review, chain,
                       twin>>

\* The call, up to the try statement: the tracker is created.
ReflectionCall(linkedin_url) ==
    /\ reflection.pc = "idle"
    /\ reflection' =
         [pc |-> "open", linkedin_url |-> linkedin_url, stage |-> 1,
          queries |-> <<>>, received |-> 0, response_text |-> <<>>,
          responses |-> <<>>, tracker_calls |-> <<>>,
          generations |-> <<>>, current_gen_name |-> "None",
          end_trace_calls |-> 0, error |-> "none"]
    /\ UNCHANGED reflection_others

\* `async with ClaudeSDKClient(options=options) as client`: the client is
\* opened, or opening it raises.
OpenClient(ok) ==
    /\ reflection.pc = "open"
    /\ reflection' =
         IF ok THEN [reflection EXCEPT !.pc = "start"]
         ELSE [reflection EXCEPT !.pc = "except", !.error = "open"]
    /\ UNCHANGED reflection_others

\* tracker.start_generation(name, prompt)
StartGeneration ==
    /\ reflection.pc = "start"
    /\ reflection' =
         [reflection EXCEPT
            !.pc = "query",
            !.current_gen_name = GenerationNames[reflection.stage],
            !.tracker_calls =
                Append(@, [op |-> "start_generation",
                           name |-> GenerationNames[reflection.stage]])]
    /\ UNCHANGED reflection_others

\* `await client.query(prompt)`: the query is sent, or the call raises.
Query(ok) ==
    /\ reflection.pc = "query"
    /\ reflection' =
         IF ok
         THEN [reflection EXCEPT
                 !.pc = "collect",
                 !.queries = Append(@, StagePrompt(reflection.stage,
                                                   reflection.linkedin_url,
                                                   reflection.responses)),
                 !.received = 0,
                 !.response_text = <<>>]
         ELSE [reflection EXCEPT !.pc = "except", !.error = "query"]
    /\ UNCHANGED reflection_others

\* One iteration of the loop of collect_response; after the ResultMessage
\* the stream is over and the stripped text is the response of the stage.
Receive(message) ==
    /\ reflection.pc = "collect"
    /\ message # "result" => reflection.received < MaxMessages
    /\ reflection' =
         IF message = "result"
         THEN [reflection EXCEPT
                 !.pc = "end",
                 !.responses = Append(@, reflection.response_text)]
         ELSE [reflection EXCEPT
                 !.received = @ + 1,
                 !.response_text =
                     IF message = "assistant_text"
                     THEN Append(@, <<reflection.stage,
                                      reflection.received + 1>>)
                     ELSE @]
    /\ UNCHANGED reflection_others

\* The response stream raises.
StreamFails ==
    /\ reflection.pc = "collect"
    /\ reflection' = [reflection EXCEPT !.pc = "except", !.error = "stream"]
    /\ UNCHANGED reflection_others

\* tracker.end_generation(output=...)
EndGeneration ==
    /\ reflection.pc = "end"
    /\ reflection' =
         [reflection EXCEPT
            !.pc = IF reflection.stage < STAGES THEN "start"
                   ELSE "end_trace",
            !.stage = IF reflection.stage < STAGES THEN @ + 1 ELSE @,
            !.generations = Append(@, reflection.current_gen_name),
            !.tracker_calls =
                Append(@, [op |-> "end_generation",
                           name |-> reflection.current_gen_name])]
    /\ UNCHANGED reflection_others

\* `trace_summary = tracker.end_trace()` at the end of the with block.
EndTrace ==
    /\ reflection.pc = "end_trace"
    /\ reflection' = [reflection EXCEPT !.pc = "close",
                                        !.end_trace_calls = @ + 1]
    /\ UNCHANGED reflection_others

\* The return statement leaves the with block: the client is closed and
\* the dict is returned, or closing the client raises.
CloseClient(ok) ==
    /\ reflection.pc = "close"
    /\ reflection' =
         IF ok
         THEN [pc |-> "returned", ret |-> SuccessResult(reflection)]
              @@ reflection
         ELSE [reflection EXCEPT !.pc = "except", !.error = "close"]
    /\ UNCHANGED reflection_others

\* `except Exception as e`: the trace is ended and the failure returned.
ExceptClause ==
    /\ reflection.pc = "except"
    /\ reflection' =
         [pc |-> "returned",
          end_trace_calls |-> reflection.end_trace_calls + 1,
          ret |-> FailureResult(reflection)] @@ reflection
    /\ UNCHANGED reflection_others

ReflectionNext ==
    \/ \E linkedin_url \in ProfileUrls : ReflectionCall(linkedin_url)
    \/ \E ok \in BOOLEAN : OpenClient(ok)
    \/ StartGeneration
    \/ \E ok \in BOOLEAN : Query(ok)
    \/ \E message \in StreamMessages : Receive(message)
    \/ StreamFails
    \/ EndGeneration
    \/ EndTrace
    \/ \E ok \in BOOLEAN : CloseClient(ok)
    \/ ExceptClause

ReflectionSpec == Init /\ [][ReflectionNext]_vars

--------------------------------------------------------------------------
\* request_human_review of tools/human_feedback.py, called on its own.

\* What the reviewer types at the rating prompt.
RatingInputs ==
    {<<"4">>, <<" ", "5">>, <<"3">>, <<"0">>, <<"9">>, <<"1", "2">>,
     <<"-", "1">>, <<"x">>, <<>>, <<"s", "k", "i", "p">>,
     <<"S", "K", "I", "P">>, <<"superscript_2">>}

\* What the reviewer types at the three prompts after it.
DetailInputs == {<<>>, <<"N">>, <<"n", "o", "n", "e">>, <<"x">>}

DecimalDigits == <<"0", "1", "2", "3", "4", "5", "6", "7", "8", "9">>

\* str.lower() on the letters that occur.
LowerChar(c) ==
    IF c = "S" THEN "s" ELSE IF c = "K" THEN "k" ELSE IF c = "I" THEN "i"
    ELSE IF c = "P" THEN "p" ELSE IF c = "N" THEN "n" ELSE c

Lower(str) == [i \in 1..Len(str) |-> LowerChar(str[i])]

\* str.isdigit(): true of the character superscript two as well.
IsDigit(str) ==
    /\ str # <<>>
    /\ \A i \in 1..Len(str) :
          \/ str[i] = "superscript_2"
          \/ \E n \in 1..10 : DecimalDigits[n] = str[i]

\* int(str) raises ValueError on a digit that is not a decimal digit.
IntRaises(str) ==
    \E i \in 1..Len(str) : \A n \in 1..10 : DecimalDigits[n] # str[i]

DigitValue(c) == (CHOOSE n \in 1..10 : DecimalDigits[n] = c) - 1

\* int(str) of a string of decimal digits.
RECURSIVE IntOf(_)
IntOf(str) ==
    IF str = <<>> THEN 0
    ELSE IntOf(SubSeq(str, 1, Len(str) - 1)) * 10
         + DigitValue(str[Len(str)])

Min(a, b) == IF a < b THEN a ELSE b
Max(a, b) == IF a > b THEN a ELSE b

\* Lines 128-132: the rating the review goes on with.
RatingInt(rating) ==
    IF IsDigit(rating)
    THEN IF IntRaises(rating) THEN 3 ELSE Max(1, Min(5, IntOf(rating)))
    ELSE 3

\* Mutant: only the top rating approves.
ApprovedOnlyFive(rating_int) == rating_int > 4

\* `"approved": rating_int >= 4`
Approved(rating_int) == rating_int >= 4

\* `x if x.lower() not in ['none', 'n', ''] else None`, None being <<>>.
OrNone(str) ==
    IF Lower(str) \in {<<"n", "o", "n", "e">>, <<"n">>, <<>>}
    THEN <<>> ELSE <<str>>

\* The line of an optional part of the response, if the part is there.
PartLine(label, part) ==
    IF part = <<>> THEN <<>> ELSE <<[label |-> label, value |-> part[1]]>>

\* response_parts of the interactive mode.
ResponseParts(prospect, rating_int, feedback, missing, corrections) ==
    <<[label |-> "Human Review Feedback for", value |-> prospect],
      [label |-> "- Rating:", value |-> rating_int],
      [label |-> "- Approved:",
       value |-> IF Approved(rating_int) THEN "Yes"
                 ELSE "No - needs improvement"]>>
    \o PartLine("- Improvement suggestions:", OrNone(feedback))
    \o PartLine("- Missing information:", OrNone(missing))
    \o PartLine("- Corrections needed:", OrNone(corrections))
    \o (IF /\ OrNone(feedback) = <<>>
           /\ OrNone(missing) = <<>>
           /\ OrNone(corrections) = <<>>
        THEN <<[label |-> "- No specific issues identified"]>>
        ELSE <<>>)

\* response_text of the AUTO_FEEDBACK mode.
AutoResponse(prospect) ==
    <<[label |-> "Human Review Feedback for", value |-> prospect],
      [label |-> "- Rating:", value |-> 3],
      [label |-> "- Approved:", value |-> "No - needs improvement"],
      [label |-> "- Improvement suggestions:",
       value |-> "Add more specific pain points for their industry"],
      [label |-> "- Missing information:",
       value |-> "Missing recent news about the company"]>>

SkipResponse ==
    <<[label |-> "Human review: Auto-approved (skipped)."]>>

ToolText(text) == [content |-> <<[type |-> "text", text |-> text]>>]

review_others == <<agent_vars, fetch, entry_point, parse, reflection, chain,
                   twin>>

\* The call: with AUTO_FEEDBACK the sample feedback is returned at once.
ReviewCall(auto_feedback) ==
    /\ review.pc = "idle"
    /\ review' =
         IF auto_feedback
         THEN [pc |-> "returned", auto_feedback |-> TRUE,
               prospect |-> "prospect", inputs |-> <<>>,
               result |-> ToolText(AutoResponse("prospect"))]
         ELSE [pc |-> "rating", auto_feedback |-> FALSE,
               prospect |-> "prospect", inputs |-> <<>>]
    /\ UNCHANGED review_others

\* The rating is read, and the review is skipped or goes on.
ReadRating(typed) ==
    /\ review.pc = "rating"
    /\ LET rating == Strip(typed) IN
       review' =
         IF Lower(rating) = <<"s", "k", "i", "p">>
         THEN [pc |-> "returned", inputs |-> Append(review.inputs, typed),
               result |-> ToolText(SkipResponse)] @@ review
         ELSE [pc |-> "feedback", inputs |-> Append(review.inputs, typed),
               rating_int |-> RatingInt(rating)] @@ review
    /\ UNCHANGED review_others

\* `feedback = input(...).strip()`
ReadFeedback(typed) ==
    /\ review.pc = "feedback"
    /\ review' = [pc |-> "missing", inputs |-> Append(review.inputs, typed),
                  feedback |-> Strip(typed)] @@ review
    /\ UNCHANGED review_others

\* `missing = input(...).strip()`
ReadMissing(typed) ==
    /\ review.pc = "missing"
    /\ review' = [pc |-> "corrections",
                  inputs |-> Append(review.inputs, typed),
                  missing |-> Strip(typed)] @@ review
    /\ UNCHANGED review_others

\* `corrections = input(...).strip()`, and the rest of the function.
ReadCorrections(typed) ==
    /\ review.pc = "corrections"
    /\ review' =
         [pc |-> "returned", inputs |-> Append(review.inputs, typed),
          corrections |-> Strip(typed),
          result |-> ToolText(ResponseParts(review.prospect,
                                            review.rating_int,
                                            review.feedback,
                                            review.missing,
                                            Strip(typed)))] @@ review
    /\ UNCHANGED review_others

ReviewNext ==
    \/ \E auto_feedback \in BOOLEAN : ReviewCall(auto_feedback)
    \/ \E typed \in RatingInputs : ReadRating(typed)
    \/ \E typed \in DetailInputs : ReadFeedback(typed)
    \/ \E typed \in DetailInputs : ReadMissing(typed)
    \/ \E typed \in DetailInputs : ReadCorrections(typed)

ReviewSpec == Init /\ [][ReviewNext]_vars

--------------------------------------------------------------------------
(* chained_workflow of lesson1/chained_outreach.py: fetch, extract,       *)
(* generate, inside one try statement.                                     *)

MaxJobs == 1

ChainUrls == {"https://linkedin.com/in/jensen", "linkedin.com/jensen"}

ChainSteps == <<"fetch_linkedin_profile", "extract_profile_data",
                "generate_outreach_message">>

\* One element of `experiences`: complete, without "description", without
\* "company".
Jobs == {[company |-> "NVIDIA", description |-> "GPUs"],
         [company |-> "Acme"],
         [description |-> "Retail"]}

JobLists == UNION {[1..n -> Jobs] : n \in 0..MaxJobs}

ChainKeys == {"first_name", "experiences", "industry", "headline"}

\* The profiles the endpoint answers with: `has` is the set of keys of the
\* JSON object; industry and headline are <<>> for null.
ChainProfiles ==
    {p \in [has : SUBSET ChainKeys,
            first_name : {"Jensen"},
            experiences : JobLists,
            industry : {<<>>, <<"Computer Software">>},
            headline : {<<>>, <<"Founder">>}] :
        /\ "experiences" \notin p.has => p.experiences = <<>>
        /\ "industry" \notin p.has => p.industry = <<>>}

\* What requests.get does: it raises, or it returns a response whose body
\* is a profile or is not JSON (`json` is <<>>).
ChainResponses ==
    {[kind |-> "ConnectionError"]}
    \cup {[kind |-> "response", status_code |-> 404, json |-> <<>>],
          [kind |-> "response", status_code |-> 200, json |-> <<>>]}
    \cup {[kind |-> "response", status_code |-> 200, json |-> <<p>>] :
            p \in ChainProfiles}

\* What messages.create does: it raises, or returns content blocks.
Completions == {[kind |-> "APIError"],
                [kind |-> "message", content |-> <<>>],
                [kind |-> "message", content |-> <<"Hi Jensen, ...">>]}

Raise(text) == [raised |-> TRUE, error |-> text]
Value(v) == [raised |-> FALSE, value |-> v]

\* Lines 35-53.
chain_fetch_linkedin_profile(response) ==
    IF response.kind = "ConnectionError" THEN Raise("ConnectionError")
    ELSE IF response.status_code # 200
    THEN Raise("Profile fetch failed: 404")
    ELSE IF response.json = <<>> THEN Raise("JSONDecodeError")
    ELSE Value(response.json[1])

\* The words `is_tech` looks for, after lower().
TechTexts == {"Computer Software", "NVIDIA"}

\* Mutant: a missing field is replaced by a default value.
extract_profile_data_defaults(profile) ==
    LET job == IF profile.experiences = <<>> THEN [title |-> ""]
               ELSE profile.experiences[1]
        company == IF "company" \in DOMAIN job THEN job.company ELSE ""
    IN Value([first_name |-> IF "first_name" \in profile.has
                             THEN profile.first_name ELSE "",
              company |-> company,
              description |-> IF "description" \in DOMAIN job
                              THEN job.description ELSE "",
              is_tech |-> company \in TechTexts])

\* Lines 56-90: direct field access, so a missing field raises.
extract_profile_data(profile) ==
    IF "first_name" \notin profile.has THEN Raise("'first_name'")
    ELSE IF "experiences" \notin profile.has THEN Raise("'experiences'")
    ELSE IF profile.experiences = <<>>
    THEN Raise("list index out of range")
    ELSE IF "company" \notin DOMAIN profile.experiences[1]
    THEN Raise("'company'")
    ELSE IF "description" \notin DOMAIN profile.experiences[1]
    THEN Raise("'description'")
    \* profile.get("headline", "").lower() with a null headline
    ELSE IF "headline" \in profile.has /\ profile.headline = <<>>
    THEN Raise("'NoneType' object has no attribute 'lower'")
    ELSE LET company == profile.experiences[1].company
         IN Value([first_name |-> profile.first_name,
                   company |-> company,
                   description |-> profile.experiences[1].description,
                   is_tech |-> \/ profile.industry = <<"Computer Software">>
                               \/ company \in TechTexts])

\* Lines 101-147: the prompt of the one generation call.
OutreachPrompt(data) ==
    [style_instruction |-> IF data.is_tech THEN "rap" ELSE "professional",
     first_name |-> data.first_name,
     company |-> data.company,
     description |-> data.description]

\* Lines 149-160.
generate_outreach_message(completion) ==
    IF completion.kind = "APIError" THEN Raise("APIError")
    ELSE IF completion.content = <<>> THEN Raise("list index out of range")
    ELSE Value(completion.content[1])

chain_others == <<agent_vars, fetch, entry_point, parse, reflection, review,
                  twin>>

\* What a step leaves: the except clause on a raise, else the next step.
AfterStep(result, next_pc, field) ==
    IF result.raised
    THEN [pc |-> "except", error |-> result.error] @@ chain
    ELSE [pc |-> next_pc,
          succeeded |-> chain.succeeded + 1] @@ (field :> result.value)
             @@ chain

\* The call, up to the try statement.
ChainCall(linkedin_url) ==
    /\ chain.pc = "idle"
    /\ chain' = [pc |-> "fetch", linkedin_url |-> linkedin_url,
                 calls |-> <<>>, succeeded |-> 0, gets |-> <<>>,
                 prompts |-> <<>>, profile |-> <<>>, data |-> <<>>,
                 message |-> "", error |-> "", ret |-> <<>>]
    /\ UNCHANGED chain_others

\* Step 1.
FetchProfile(response) ==
    /\ chain.pc = "fetch"
    /\ chain' = [calls |-> Append(chain.calls, ChainSteps[1]),
                 gets |-> Append(chain.gets, response)]
                @@ AfterStep(chain_fetch_linkedin_profile(response),
                             "extract", "profile")
    /\ UNCHANGED chain_others

\* Step 2.
ExtractData ==
    /\ chain.pc = "extract"
    /\ chain' = [calls |-> Append(chain.calls, ChainSteps[2])]
                @@ AfterStep(extract_profile_data(chain.profile),
                             "generate", "data")
    /\ UNCHANGED chain_others

\* Step 3.
GenerateMessage(completion) ==
    /\ chain.pc = "generate"
    /\ chain' = [calls |-> Append(chain.calls, ChainSteps[3]),
                 prompts |-> Append(chain.prompts,
                                    OutreachPrompt(chain.data))]
                @@ AfterStep(generate_outreach_message(completion),
                             "success", "message")
    /\ UNCHANGED chain_others

\* Lines 185-195.
ReturnSuccess ==
    /\ chain.pc = "success"
    /\ chain' = [pc |-> "returned",
                 ret |-> [success |-> TRUE, message |-> chain.message,
                          url |-> chain.linkedin_url]] @@ chain
    /\ UNCHANGED chain_others

\* Lines 197-205.
ReturnFailure ==
    /\ chain.pc = "except"
    /\ chain' = [pc |-> "returned",
                 ret |-> [success |-> FALSE, error |-> chain.error,
                          url |-> chain.linkedin_url]] @@ chain
    /\ UNCHANGED chain_others

ChainNext ==
    \/ \E linkedin_url \in ChainUrls : ChainCall(linkedin_url)
    \/ \E response \in ChainResponses : FetchProfile(response)
    \/ ExtractData
    \/ \E completion \in Completions : GenerateMessage(completion)
    \/ ReturnSuccess
    \/ ReturnFailure

ChainSpec == Init /\ [][ChainNext]_vars

--------------------------------------------------------------------------
(* run_agent called twice, with debug=True and with debug=False, against  *)
(* the same responses of the generation service and the same tools.       *)

\* block.text of the text blocks of a run.
TwinTexts ==
    {<<[prefix |-> "", body |-> <<>>]>>,
     <<[prefix |-> "Thought:", body |-> <<"b", " ">>]>>,
     <<[prefix |-> "Thought:", body |-> <<" ", "a">>],
       [prefix |-> "Final Answer:", body |-> <<"b", " ">>]>>}

\* The content of the response of form f in 1-based turn t, its text blocks
\* carrying `text`.
TwinContent(f, text, t) ==
    [i \in 1..Len(f.shape) |->
        IF f.shape[i] = "text"
        THEN [type |-> "text", text |-> text]
        ELSE ResponseContent(f, t)[i]]

\* The locals and the metrics of a call, before the loop.
NewRun(debug) ==
    [debug |-> debug,
     pc |-> "loop",
     turn |-> 0,
     messages |-> <<[role |-> "user", content |-> user_prompt]>>,
     metrics |-> [turns |-> 0,
                  total_input_tokens |-> 0,
                  total_output_tokens |-> 0,
                  tool_calls |-> <<>>,
                  api_calls |-> <<>>,
                  thoughts |-> <<>>,
                  pattern |-> "ReAct"],
     text_response |-> <<>>,
     tool_use_blocks |-> <<>>,
     tool_results |-> <<>>,
     requests |-> <<>>,
     executed |-> <<>>,
     ret |-> [kind |-> "none"]]

\* Mutant: the thoughts are tracked whatever the flag.
RECURSIVE TraceThoughtsAlways(_, _)
TraceThoughtsAlways(debug, content) ==
    IF content = <<>> THEN <<>>
    ELSE (IF Head(content).type = "text"
          THEN parse_react_components(Head(content).text).thoughts
          ELSE <<>>)
         \o TraceThoughtsAlways(debug, Tail(content))

\* What the loop over response.content adds to metrics["thoughts"]: with
\* debug, the thoughts display_react_trace parsed from each text block.
RECURSIVE TraceThoughts(_, _)
TraceThoughts(debug, content) ==
    IF content = <<>> THEN <<>>
    ELSE (IF debug /\ Head(content).type = "text"
          THEN parse_react_components(Head(content).text).thoughts
          ELSE <<>>)
         \o TraceThoughts(debug, Tail(content))

\* One iteration of the loop up to the termination check.
RunGeneration(r, f, text) ==
    LET content == TwinContent(f, text, r.turn + 1)
        usage   == Usage(r.messages, content)
        blocks  == ToolUseBlocks(content)
    IN [r EXCEPT
          !.requests = Append(@, CreateRequest(r.messages)),
          !.metrics =
             [@ EXCEPT
                !.turns = @ + 1,
                !.total_input_tokens = @ + usage.input_tokens,
                !.total_output_tokens = @ + usage.output_tokens,
                !.api_calls = Append(@, ApiCallRecord(r.turn, usage,
                                                      f.stop_reason)),
                !.tool_calls = @ \o ToolCallEntries(content, r.turn + 1),
                !.thoughts = @ \o TraceThoughts(r.debug, content)],
          !.text_response = TextResponse(content, <<>>),
          !.tool_use_blocks = blocks,
          !.tool_results = <<>>,
          !.messages = AppendEntry(@, [role |-> "assistant",
                                       content |-> AssistantContent(content)]),
          !.pc = IF AgentComplete(f.stop_reason, blocks)
                 THEN "summary" ELSE "exec"]

\* client.messages.create raises.
RunGenerationError(r) ==
    [r EXCEPT !.requests = Append(@, CreateRequest(r.messages)),
              !.metrics.turns = @ + 1,
              !.ret = [kind |-> "exception", error |-> "APIError"],
              !.pc = "raised"]

\* One iteration of `for tool_block in tool_use_blocks`.
RunExecuteTool(r) ==
    LET tool_block == NextToolBlock(r.tool_use_blocks, r.tool_results)
        result == execute_tool(tool_block.name, tool_block.input)
    IN [r EXCEPT
          !.tool_results = Append(@, ToolResultBlock(tool_block, result)),
          !.executed = Append(@, [turn |-> r.turn + 1, id |-> tool_block.id,
                                  name |-> tool_block.name,
                                  input |-> tool_block.input,
                                  result |-> result])]

\* The tool results are appended and the for loop steps.
RunAppendToolResults(r) ==
    [r EXCEPT !.messages = AppendEntry(@, [role |-> "user",
                                           content |-> r.tool_results]),
              !.turn = @ + 1,
              !.pc = IF MoreTurns(r.turn) THEN "loop" ELSE "summary"]

\* The code after the loop.
RunReturn(r) ==
    LET final == r.metrics @@ [final_response |-> r.text_response,
                               total_cost_usd |-> TotalCost(r.metrics)]
    IN [r EXCEPT !.metrics = final,
                 !.ret = [kind |-> "return", value |-> final],
                 !.pc = "done"]

Executing(r) ==
    r.pc = "exec" /\ Len(r.tool_results) < Len(r.tool_use_blocks)

Appending(r) ==
    r.pc = "exec" /\ Len(r.tool_results) = Len(r.tool_use_blocks)

twin_others == <<agent_vars, fetch, entry_point, parse, reflection, review,
                 chain>>

\* The two calls: the service answers both in the form f, with `text` in
\* its text blocks.
TwinCall(f, text) ==
    /\ twin.pc = "idle"
    /\ twin' = [pc |-> "running", form |-> f, text |-> text,
                on |-> NewRun(TRUE), off |-> NewRun(FALSE)]
    /\ UNCHANGED twin_others

\* The service answers both calls alike: in its form or, with `last`, in
\* that form with the stop reason "end_turn".
TwinGenerationCall(last) ==
    /\ twin.pc = "running"
    /\ twin.on.pc = "loop" \/ twin.off.pc = "loop"
    /\ last => twin.form.stop_reason # "end_turn"
    /\ LET f == IF last THEN [twin.form EXCEPT !.stop_reason = "end_turn"]
                ELSE twin.form
           Step(r) == IF r.pc = "loop" THEN RunGeneration(r, f, twin.text)
                      ELSE r
       IN twin' = [twin EXCEPT !.on = Step(@), !.off = Step(@)]
    /\ UNCHANGED twin_others

\* The service fails both calls alike.
TwinGenerationError ==
    /\ twin.pc = "running"
    /\ twin.on.pc = "loop" \/ twin.off.pc = "loop"
    /\ LET Step(r) == IF r.pc = "loop" THEN RunGenerationError(r) ELSE r
       IN twin' = [twin EXCEPT !.on = Step(@), !.off = Step(@)]
    /\ UNCHANGED twin_others

TwinExecuteTool ==
    /\ twin.pc = "running"
    /\ Executing(twin.on) \/ Executing(twin.off)
    /\ LET Step(r) == IF Executing(r) THEN RunExecuteTool(r) ELSE r
       IN twin' = [twin EXCEPT !.on = Step(@), !.off = Step(@)]
    /\ UNCHANGED twin_others

TwinAppendToolResults ==
    /\ twin.pc = "running"
    /\ Appending(twin.on) \/ Appending(twin.off)
    /\ LET Step(r) == IF Appending(r) THEN RunAppendToolResults(r) ELSE r
       IN twin' = [twin EXCEPT !.on = Step(@), !.off = Step(@)]
    /\ UNCHANGED twin_others

TwinReturn ==
    /\ twin.pc = "running"
    /\ twin.on.pc = "summary" \/ twin.off.pc = "summary"
    /\ LET Step(r) == IF r.pc = "summary" THEN RunReturn(r) ELSE r
       IN twin' = [twin EXCEPT !.on = Step(@), !.off = Step(@)]
    /\ UNCHANGED twin_others

TwinNext ==
    \/ \E f \in Forms, text \in TwinTexts : TwinCall(f, text)
    \/ \E last \in BOOLEAN : TwinGenerationCall(last)
    \/ TwinGenerationError
    \/ TwinExecuteTool
    \/ TwinAppendToolResults
    \/ TwinReturn

TwinSpec == Init /\ [][TwinNext]_vars

--------------------------------------------------------------------------
(* Vocabulary of the properties                                            *)

Terminated == pc \in {"done", "raised"}
LoopEnded == pc \in {"summary", "done"}

\* Number of responses received so far, and the k-th of them as stored in
\* the history.
Responses == Len(metrics.api_calls)
Response(k) == messages[2 * k].content
StopReason(k) == metrics.api_calls[k].stop_reason
HasToolUse(content) == \E i \in 1..Len(content) : content[i].type = "tool_use"
RequestsTool(k) == StopReason(k) # "end_turn" /\ HasToolUse(Response(k))

\* Last text block of a content, <<>> when it has none.
LastText(content) ==
    LET S == {i \in 1..Len(content) : content[i].type = "text"} IN
    IF S = {} THEN <<>>
    ELSE content[CHOOSE i \in S : \A j \in S : j <= i].text

ExecutedIn(k) == SelectSeq(executed, LAMBDA e : e.turn = k)
Failed(e) == e.result \in ErrorTexts

\* Steps run_agent can still take: one call, at most MaxBlocks tools and one
\* append per remaining turn, then the return.
Rank ==
    CASE Terminated     -> 0
      [] pc = "summary" -> 1
      [] pc = "loop"    -> 1 + (MAX_TURNS - turn) * (MaxBlocks + 2)
      [] pc = "exec"    -> (MAX_TURNS - turn) * (MaxBlocks + 2)
                           - Len(tool_results)

--------------------------------------------------------------------------
\* C1: run_agent terminates (every step strictly decreases a bounded rank)
\* having made at most MAX_TURNS generation calls; when it returns and every
\* response requested a tool (stop_reason other than end_turn and at least
\* one tool_use block), exactly MAX_TURNS turns were taken and exactly
\* MAX_TURNS generation calls were made.
C1_TurnBudget ==
    /\ [](/\ Len(requests) <= MAX_TURNS
          /\ metrics.turns = Len(requests)
          /\ Rank >= 0
          /\ (pc = "done" /\ \A k \in 1..Responses : RequestsTool(k))
                => (metrics.turns = MAX_TURNS /\ Len(requests) = MAX_TURNS))
    /\ [][Rank' < Rank]_vars

C1_Witness ==
    /\ pc = "done"
    /\ \A k \in 1..Responses : RequestsTool(k)
    /\ ret.value.turns = MAX_TURNS
    /\ Len(requests) = MAX_TURNS

\* C2: when the k-th response is the first without a tool_use block, the
\* loop has ended with exactly k generation calls and turns = k, tools were
\* executed in each of the turns 1..k-1 and in no other, and the returned
\* final_response is the last text of that k-th response; k = 1 executes no
\* tool, and k = 2 after a single tool request leaves a history of length 4.
C2_FirstAnswerEndsLoop ==
    \A k \in 1..Responses :
        ~HasToolUse(Response(k)) =>
            /\ LoopEnded
            /\ metrics.turns = k
            /\ Len(requests) = k
            /\ \A i \in 1..Len(executed) : executed[i].turn \in 1..(k - 1)
            /\ \A j \in 1..(k - 1) :
                   Len(ExecutedIn(j)) = Len(ToolUseBlocks(Response(j)))
                   /\ Len(ExecutedIn(j)) >= 1
            /\ pc = "done" => ret.value.final_response = LastText(Response(k))
            /\ k = 1 => executed = <<>>
            /\ (k = 2 /\ Len(ToolUseBlocks(Response(1))) = 1)
                   => Len(messages) = 4

C2_Witness ==
    /\ pc = "done"
    /\ Responses = 2
    /\ ~HasToolUse(Response(2))
    /\ Len(executed) = 1
    /\ Len(messages) = 4
    /\ ret.value.turns = 2
    /\ ret.value.final_response = <<2, 1>>

\* C3: a failed tool execution never ends the loop: an error returned by
\* execute_tool in a turn before the last one is followed by a further
\* generation call, whose request carries the error text as the content of
\* the tool_result block answering that tool_use; and the executor returning
\* an error leaves the loop where it was.
C3_ToolFailureContinues ==
    /\ [](\A i \in 1..Len(executed) :
            LET e == executed[i] IN
            (Failed(e) /\ e.turn < MAX_TURNS) =>
               /\ (LoopEnded \/ Terminated) => Len(requests) > e.turn
               /\ Len(requests) > e.turn =>
                     \E j \in 1..Len(requests[e.turn + 1].messages[2 * e.turn + 1].content) :
                        LET b == requests[e.turn + 1].messages[2 * e.turn + 1].content[j] IN
                        /\ b.type = "tool_result"
                        /\ b.tool_use_id = e.id
                        /\ b.content = e.result
                        /\ b.content \in ErrorTexts)
    /\ [][Len(executed') > Len(executed) => (pc' = "exec" /\ ret' = ret)]_vars

C3_Witness ==
    /\ pc = "done"
    /\ Len(executed) >= 3
    /\ \A i \in 1..Len(executed) : Failed(executed[i])
    /\ Len(requests) > executed[Len(executed)].turn

\* C4: every tool_result block of the history that answers a failed
\* execution is marked is_error = TRUE, and no block answering a successful
\* one is.
C4_FailureFlagged ==
    \A i \in 2..Len(messages) :
        messages[i].role = "user" =>
            \A j \in 1..Len(messages[i].content) :
                LET b == messages[i].content[j]
                    flagged == "is_error" \in DOMAIN b /\ b.is_error = TRUE
                IN  \A n \in 1..Len(executed) :
                        executed[n].id = b.tool_use_id =>
                            (Failed(executed[n]) <=> flagged)

\* C5: when the generation request fails, the caller gets a failure result
\* (not an exception) that carries the messages and the metrics accumulated
\* so far, and the failed request was sent once.
C5_GenerationFailureReported ==
    pc = "raised" =>
        /\ ret.kind = "failure"
        /\ {"messages", "metrics"} \subseteq DOMAIN ret
        /\ ret.messages = messages
        /\ ret.metrics = metrics
        /\ Len(requests) = metrics.turns

\* C6: the metrics returned by a run that exhausted MAX_TURNS while tools
\* were still requested carry a status, which is neither success nor
\* failure and so tells the run from one that completed on its last turn.
Exhausted == pc = "done" /\ RequestsTool(Responses)
C6_DistinctExhaustionStatus ==
    Exhausted =>
        /\ "status" \in DOMAIN ret.value
        /\ ret.value.status \notin {"success", "failure"}

\* C7: every user entry appended after a tool-using turn answers the
\* tool_use blocks of the assistant entry right before it one to one and in
\* order: as many tool_result blocks as tool_use blocks, the i-th result
\* carrying the i-th id, and no id twice.
C7_ResultsMatchRequests ==
    \A i \in 2..Len(messages) :
        messages[i].role = "user" =>
            LET uses == ToolUseBlocks(messages[i - 1].content)
                res  == messages[i].content
            IN  /\ messages[i - 1].role = "assistant"
                /\ Len(res) = Len(uses)
                /\ \A j \in 1..Len(res) :
                       /\ res[j].type = "tool_result"
                       /\ res[j].tool_use_id = uses[j].id
                /\ \A j, k \in 1..Len(res) :
                       j # k => res[j].tool_use_id # res[k].tool_use_id

C7_Witness ==
    /\ pc = "done"
    /\ \E i \in 2..Len(messages) :
          /\ messages[i].role = "user"
          /\ Len(messages[i].content) = 2
          /\ Len(messages[i - 1].content) = 2
          /\ messages[i].content[2].tool_use_id = messages[i - 1].content[2].id

\* C8, as claimed: once the loop has ended, the history has exactly
\* 2 * turns entries, on every termination path.
C8_HistoryLength ==
    LoopEnded => Len(messages) = 2 * metrics.turns

\* C8, amended: once the loop has ended, the history has 2 * turns entries
\* when the last response ended the loop (natural completion), and
\* 2 * turns + 1 entries, with turns = MAX_TURNS, when the turns ran out
\* after the tools of the last response were executed.
C8_HistoryLengthByExit ==
    LoopEnded =>
        IF RequestsTool(Responses)
        THEN /\ metrics.turns = MAX_TURNS
             /\ Len(messages) = 2 * metrics.turns + 1
        ELSE Len(messages) = 2 * metrics.turns

C8_Witness ==
    /\ pc = "done"
    /\ RequestsTool(Responses)
    /\ ret.value.turns = MAX_TURNS
    /\ Len(messages) = 2 * MAX_TURNS + 1

\* C9: the returned final_response is the most recent text block of the
\* whole conversation: the last text of the latest response that has one,
\* and empty only when no response had any.
MostRecentText ==
    LET K == {k \in 1..Responses : LastText(Response(k)) # <<>>} IN
    IF K = {} THEN <<>>
    ELSE LastText(Response(CHOOSE k \in K : \A j \in K : j <= k))
C9_FinalResponseMostRecentText ==
    pc = "done" => ret.value.final_response = MostRecentText

\* C10, as claimed: a response whose stop_reason is anything but "tool_use"
\* ends the loop, and none of its tool_use blocks is executed.
C10_BinaryStopReason ==
    \A k \in 1..Responses :
        StopReason(k) # "tool_use" =>
            /\ LoopEnded
            /\ metrics.turns = k
            /\ ExecutedIn(k) = <<>>

\* C10, amended: a response ends the loop exactly when its stop_reason is
\* "end_turn" or it has no tool_use block, and then none of its tools is
\* executed; a response with any other stop_reason ("max_tokens" as well as
\* "tool_use") that has tool_use blocks has all of them executed and the
\* loop goes on.
C10_EndTurnOrNoToolEndsLoop ==
    \A k \in 1..Responses :
        IF StopReason(k) = "end_turn" \/ ~HasToolUse(Response(k))
        THEN /\ LoopEnded
             /\ metrics.turns = k
             /\ ExecutedIn(k) = <<>>
        ELSE \/ /\ pc = "exec"
                /\ metrics.turns = k
                /\ Len(ExecutedIn(k)) = Len(tool_results)
             \/ /\ Len(messages) > 2 * k
                /\ messages[2 * k + 1].role = "user"
                /\ Len(ExecutedIn(k)) = Len(ToolUseBlocks(Response(k)))

C10_Witness ==
    /\ pc = "done"
    /\ \E k \in 1..Responses :
          /\ StopReason(k) = "max_tokens"
          /\ HasToolUse(Response(k))
          /\ Len(ExecutedIn(k)) >= 1
          /\ ret.value.turns > k

--------------------------------------------------------------------------
\* The tool_use blocks of a content, in order.
ToolUsesOf(content) == SelectSeq(content, LAMBDA b : b.type = "tool_use")

\* The k-th turn went on past the termination check.
Continued(k) ==
    \/ Len(messages) > 2 * k
    \/ k = Responses /\ pc = "exec"

\* The executor calls the responses 1..k ask for: one per tool_use block of
\* every response that requests tools, in response order.
RECURSIVE RequestedCalls(_)
RequestedCalls(k) ==
    IF k = 0 THEN <<>>
    ELSE RequestedCalls(k - 1) \o
         (IF RequestsTool(k)
          THEN LET uses == ToolUsesOf(Response(k)) IN
               [i \in 1..Len(uses) |->
                   [turn |-> k, id |-> uses[i].id, name |-> uses[i].name,
                    input |-> uses[i].input]]
          ELSE <<>>)

SameCall(e, r) ==
    /\ e.turn = r.turn /\ e.id = r.id
    /\ e.name = r.name /\ e.input = r.input

\* C11: the calls of execute_tool are exactly the tool_use blocks of the
\* continuing turns, one call per block and in response order, without
\* de-duplication: while the tools of a turn run the calls made are a prefix
\* of the requested ones, and between turns and at exit they are all of
\* them.
C11_OneExecutionPerToolUse ==
    LET req == RequestedCalls(Responses) IN
    /\ Len(executed) <= Len(req)
    /\ \A i \in 1..Len(executed) : SameCall(executed[i], req[i])
    /\ pc # "exec" => Len(executed) = Len(req)

C11_Witness ==
    /\ pc = "done"
    /\ \E i, j \in 1..Len(executed) :
          /\ i < j
          /\ executed[i].turn = executed[j].turn
          /\ executed[i].name = executed[j].name
          /\ executed[i].input = executed[j].input
    /\ \E i, j \in 1..Len(executed) :
          /\ executed[i].turn < executed[j].turn
          /\ executed[i].name = executed[j].name
          /\ executed[i].input = executed[j].input

\* The user entry holding the results of the tools executed in turn n.
ResultsEntry(n) ==
    LET ex == ExecutedIn(n) IN
    [role |-> "user",
     content |-> [i \in 1..Len(ex) |->
                     [type |-> "tool_result", tool_use_id |-> ex[i].id,
                      content |-> ex[i].result]]]

SentResults(n) ==
    \E k \in (n + 1)..Len(requests) :
        /\ Len(requests[k].messages) >= 2 * n + 1
        /\ requests[k].messages[2 * n + 1] = ResultsEntry(n)

\* C12, as claimed: when run_agent has returned, the results of every turn
\* in which tools were executed, turn MAX_TURNS included, were sent in a
\* later generation request.
C12_EveryResultSent ==
    pc = "done" =>
        \A n \in 1..MAX_TURNS : ExecutedIn(n) # <<>> => SentResults(n)

\* C12, amended: when the loop has ended, the results of every turn before
\* MAX_TURNS in which tools were executed were sent in the next generation
\* request; the results of the tools executed in turn MAX_TURNS are in the
\* history but no request ever carries them.
C12_ResultsSentBeforeLastTurn ==
    (LoopEnded \/ Terminated) =>
        \A n \in 1..MAX_TURNS :
            ExecutedIn(n) # <<>> =>
                IF n < MAX_TURNS
                THEN /\ Len(requests) > n
                     /\ Len(requests[n + 1].messages) = 2 * n + 1
                     /\ requests[n + 1].messages[2 * n + 1] = ResultsEntry(n)
                ELSE /\ ~SentResults(n)
                     /\ messages[2 * n + 1] = ResultsEntry(n)

C12_Witness ==
    /\ pc = "done"
    /\ ExecutedIn(MAX_TURNS) # <<>>
    /\ ExecutedIn(1) # <<>>
    /\ SentResults(1)
    /\ ~SentResults(MAX_TURNS)

\* C13: the history is append-only: every step leaves the entries already
\* in messages where they are, with their role and their content.
C13_HistoryAppendOnly ==
    [][/\ Len(messages') >= Len(messages)
       /\ \A i \in 1..Len(messages) :
             /\ messages'[i].role = messages[i].role
             /\ messages'[i].content = messages[i].content]_vars

C13_Witness ==
    /\ pc = "done"
    /\ Len(messages) >= 5
    /\ messages[1] = [role |-> "user", content |-> user_prompt]

\* C14: the k-th generation request carries the whole history of the turns
\* before it, the prompt and the assistant and tool-result entries of the
\* turns 1..k-1 in order, 2k-1 entries, and the same tools and system
\* prompt as every other request.
C14_FullContextRequests ==
    \A k \in 1..Len(requests) :
        /\ Len(requests[k].messages) = 2 * k - 1
        /\ requests[k].messages = SubSeq(messages, 1, 2 * k - 1)
        /\ requests[k].messages[1].content = user_prompt
        /\ requests[k].tools = TOOLS
        /\ requests[k].system = SYSTEM_PROMPT

C14_Witness ==
    /\ pc = "done"
    /\ Len(requests) = 3
    /\ Len(requests[3].messages) = 5
    /\ requests[3].messages[4].role = "assistant"
    /\ requests[3].messages[5].role = "user"

\* C15: the assistant entry of a response holds every block of it, text and
\* tool_use alike, in the order of the response; and a turn goes on exactly
\* when its stop_reason is not "end_turn" and it has a tool_use block,
\* whatever text it carries.
C15_TextAndToolUsePreserved ==
    /\ Responses >= 1 =>
          Response(Responses) = ResponseContent(form, Responses)
    /\ \A k \in 1..Responses :
          Continued(k) <=>
             (StopReason(k) # "end_turn" /\ ToolUsesOf(Response(k)) # <<>>)

C15_Witness ==
    /\ pc = "done"
    /\ \E k \in 1..Responses :
          /\ Len(Response(k)) = 2
          /\ Response(k)[1].type = "text"
          /\ Response(k)[2].type = "tool_use"
          /\ Continued(k)
    /\ \E k \in 1..Responses :
          /\ Len(Response(k)) = 2
          /\ Response(k)[1].type = "text"
          /\ Response(k)[2].type = "tool_use"
          /\ ~Continued(k)

\* C16: when run_agent has returned, metrics["tool_calls"] has exactly one
\* entry per executed tool invocation, in execution order, with the 1-based
\* turn, the tool name and the input of the invocation.
C16_ToolCallsLogExecutions ==
    pc = "done" =>
        /\ Len(ret.value.tool_calls) = Len(executed)
        /\ \A i \in 1..Len(executed) :
              /\ ret.value.tool_calls[i].turn = executed[i].turn
              /\ ret.value.tool_calls[i].tool = executed[i].name
              /\ ret.value.tool_calls[i].input = executed[i].input

\* The position of a tool_use block in its response.
PositionOf(id) == id[2]

\* C17: run_agent does one thing at a time: a step makes at most one call,
\* to the service or to the executor; the tools of a turn run in response
\* order; the tool-result entry is appended when all of them have run; and
\* a generation request is made when the entry of the turn before it is in
\* the history and no tool is left to run.
C17_SingleThreadOfControl ==
    /\ [](\A i \in 1..(Len(executed) - 1) :
            \/ executed[i].turn < executed[i + 1].turn
            \/ /\ executed[i].turn = executed[i + 1].turn
               /\ PositionOf(executed[i].id) < PositionOf(executed[i + 1].id))
    /\ [][/\ Len(requests') + Len(executed')
                <= Len(requests) + Len(executed) + 1
          /\ (Len(messages') > Len(messages)
                /\ messages'[Len(messages')].role = "user")
               => /\ executed' = executed
                  /\ Len(ExecutedIn(Responses))
                        = Len(ToolUsesOf(Response(Responses)))
                  /\ messages'[Len(messages')] = ResultsEntry(Responses)
          /\ Len(requests') > Len(requests)
               => /\ Len(messages) = 2 * Len(requests) + 1
                  /\ Len(executed) = Len(RequestedCalls(Responses))
                  /\ executed' = executed]_vars

C17_Witness ==
    /\ pc = "done"
    /\ Len(requests) >= 3
    /\ Len(ExecutedIn(1)) = 2
    /\ Len(ExecutedIn(2)) = 2

RECURSIVE SumOf(_, _)
SumOf(calls, key) ==
    IF calls = <<>> THEN 0
    ELSE Head(calls)[key] + SumOf(Tail(calls), key)

\* C20: when the loop has ended, 1 <= turns <= MAX_TURNS, api_calls has one
\* record per turn with the i-th carrying turn = i, and the two token totals
\* are the sums of the per-turn token counts; and no step decreases the
\* turn counter, a token total or the length of api_calls or tool_calls.
C20_MetricsConsistent ==
    /\ [](LoopEnded =>
            /\ metrics.turns \in 1..MAX_TURNS
            /\ Len(metrics.api_calls) = metrics.turns
            /\ \A i \in 1..Len(metrics.api_calls) :
                  metrics.api_calls[i].turn = i
            /\ metrics.total_input_tokens
                  = SumOf(metrics.api_calls, "input_tokens")
            /\ metrics.total_output_tokens
                  = SumOf(metrics.api_calls, "output_tokens"))
    /\ [][/\ metrics'.turns >= metrics.turns
          /\ metrics'.total_input_tokens >= metrics.total_input_tokens
          /\ metrics'.total_output_tokens >= metrics.total_output_tokens
          /\ Len(metrics'.api_calls) >= Len(metrics.api_calls)
          /\ Len(metrics'.tool_calls) >= Len(metrics.tool_calls)]_vars

C20_Witness ==
    /\ pc = "done"
    /\ ret.value.turns = 3
    /\ Len(ret.value.api_calls) = 3
    /\ ret.value.total_input_tokens = 9
    /\ ret.value.total_output_tokens > 3

\* C18: fetch_linkedin_profile never raises to its caller: whatever the
\* args and the outcome of the HTTP request, it returns a dict, and the
\* dict has is_error True exactly when the profile was not fetched.
C18_FetchNeverRaises ==
    /\ fetch.pc # "raised"
    /\ fetch.pc = "returned" =>
          (("is_error" \in DOMAIN fetch.result /\ fetch.result.is_error)
              <=> ~Fetched(fetch.outcome))

\* The environment of the entry point has no tracing observer.
NoObserver ==
    entry_point.api_key = "unset" \/ entry_point.tracer # "ok"

\* C19: without a tracing observer every entry point runs its research and
\* returns its result, and init_observability returns False without
\* raising.
C19_ObserverAbsenceNoOp ==
    /\ (entry_point.pc \in {"returned", "raised"} /\ NoObserver) =>
          /\ entry_point.pc = "returned"
          /\ entry_point.researched
          /\ entry_point.result = "result"
    /\ (entry_point.pc # "idle" /\ NoObserver) =>
          init_observability(entry_point.api_key, entry_point.tracer)
             = [kind |-> "return", value |-> FALSE]

\* C29: in every state of run_agent the roles in messages alternate,
\* beginning with "user"; every user entry after the prompt holds
\* tool_result blocks only; and when the loop has ended the last entry is
\* an assistant entry on natural completion and a user entry of tool
\* results on exhaustion of MAX_TURNS.
C29_RolesAlternate ==
    /\ \A i \in 1..Len(messages) :
          messages[i].role = IF i % 2 = 1 THEN "user" ELSE "assistant"
    /\ \A i \in 2..Len(messages) :
          messages[i].role = "user" =>
              \A j \in 1..Len(messages[i].content) :
                  messages[i].content[j].type = "tool_result"
    /\ LoopEnded =>
          IF RequestsTool(Responses)
          THEN /\ metrics.turns = MAX_TURNS
               /\ messages[Len(messages)].role = "user"
               /\ messages[Len(messages)].content # <<>>
          ELSE messages[Len(messages)].role = "assistant"

C29_Witness ==
    /\ Exhausted
    /\ Len(messages) = 2 * MAX_TURNS + 1
    /\ messages[Len(messages)].role = "user"
    /\ \E k \in 1..Responses : Len(ExecutedIn(k)) = 2

\* C30: when run_agent has returned, every tool_use block of an assistant
\* entry of messages has a tool_result block with its id in the entry that
\* follows, whatever the stop reason and the content of the response.
C30_NoUnansweredToolUse ==
    pc = "done" =>
        \A i \in 1..Len(messages) :
            messages[i].role = "assistant" =>
                \A j \in 1..Len(messages[i].content) :
                    messages[i].content[j].type = "tool_use" =>
                        /\ i < Len(messages)
                        /\ \E r \in 1..Len(messages[i + 1].content) :
                              /\ messages[i + 1].content[r].type
                                    = "tool_result"
                              /\ messages[i + 1].content[r].tool_use_id
                                    = messages[i].content[j].id

\* The lines of a text that start with a prefix, in text order.
LinesWith(text, prefix) ==
    SelectSeq([i \in 1..Len(text) |-> i],
              LAMBDA i : text[i].prefix = prefix)

\* The section that begins in line i: the rest of that line joined with
\* the lines after it up to the next line with a prefix.
SectionAt(text, i) ==
    LET later == {j \in (i + 1)..Len(text) : text[j].prefix # ""}
        last == IF later = {} THEN Len(text)
                ELSE (CHOOSE j \in later : \A k \in later : j <= k) - 1
    IN Strip(Join([k \in 1..(last - i + 1) |->
                      Strip(text[i + k - 1].body)]))

\* C21: for every text with a line that starts with "Final Answer:",
\* parse_react_components returns a final_answer that is not None and is
\* the last such section, whatever lines come after it.
C21_FinalAnswerExtracted ==
    parse.pc = "returned" =>
        LET answers == LinesWith(parse.text, "Final Answer:") IN
        answers # <<>> =>
            parse.components.final_answer
                = <<SectionAt(parse.text, answers[Len(answers)])>>

\* C22: parse_react_components returns one thoughts entry per line that
\* starts with "Thought:", in text order, each the section that begins in
\* that line; the lines before the first line with a prefix are in no
\* component; and raw_text is the text.
C22_OneThoughtPerThoughtLine ==
    parse.pc = "returned" =>
        LET starts == LinesWith(parse.text, "Thought:") IN
        /\ Len(parse.components.thoughts) = Len(starts)
        /\ \A k \in 1..Len(starts) :
              parse.components.thoughts[k]
                  = SectionAt(parse.text, starts[k])
        /\ (\A i \in 1..Len(parse.text) : parse.text[i].prefix = "") =>
              /\ parse.components.thoughts = <<>>
              /\ parse.components.final_answer = <<>>
        /\ parse.components.raw_text = parse.text

C22_Witness ==
    /\ parse.pc = "returned"
    /\ Len(parse.text) = MaxLines
    /\ parse.text[1].prefix = ""
    /\ parse.text[1].body # <<>>
    /\ parse.text[2].prefix = "Thought:"
    /\ parse.text[3].prefix = "Thought:"
    /\ Len(parse.components.thoughts) = 2
    /\ parse.components.thoughts[1] = <<"a">>

Templates == <<"V1_RESEARCH_PROMPT", "VALIDATION_PROMPT", "REFLECTION_PROMPT">>

\* C23: research_with_reflection sends at most three queries, the V1
\* research, the validation and the reflection prompt in this order, each
\* after the response stream of the stage before it was collected to its
\* end; the reflection prompt is formatted with the text collected in
\* stage 2; start_generation and end_generation alternate, one pair per
\* stage; and a run that returns success has recorded three generations.
C23_ThreeSequentialStages ==
    reflection.pc # "idle" =>
        /\ Len(reflection.queries) <= STAGES
        /\ \A k \in 1..Len(reflection.queries) :
              reflection.queries[k].template = Templates[k]
        /\ Len(reflection.responses) <= Len(reflection.queries)
        /\ Len(reflection.queries) <= Len(reflection.responses) + 1
        /\ reflection.pc \in {"start", "query"} =>
              Len(reflection.queries) = Len(reflection.responses)
        /\ Len(reflection.queries) = STAGES =>
              reflection.queries[STAGES].args.feedback
                  = reflection.responses[2]
        /\ \A i \in 1..Len(reflection.tracker_calls) :
              /\ reflection.tracker_calls[i].op
                    = IF i % 2 = 1 THEN "start_generation"
                      ELSE "end_generation"
              /\ reflection.tracker_calls[i].name
                    = GenerationNames[(i + 1) \div 2]
        /\ (reflection.pc = "returned" /\ reflection.ret.success) =>
              /\ Len(reflection.queries) = STAGES
              /\ reflection.generations = GenerationNames
              /\ Len(reflection.tracker_calls) = 2 * STAGES

C23_Witness ==
    /\ reflection.pc = "returned"
    /\ reflection.ret.success
    /\ Len(reflection.generations) = STAGES
    /\ reflection.responses[1] # <<>>
    /\ Len(reflection.responses[2]) = 2
    /\ reflection.queries[STAGES].args.feedback = reflection.responses[2]

ResultKeys == <<"v1_research", "feedback", "v2_research">>

\* C24: research_with_reflection always returns a dict with v1_research,
\* feedback, v2_research and success; success is True exactly when the
\* three stages completed; the results of the stages that completed before
\* a failure are returned; and tracker.end_trace was called exactly once.
C24_AlwaysFullResult ==
    reflection.pc = "returned" =>
        /\ {"success", "v1_research", "feedback", "v2_research"}
              \subseteq DOMAIN reflection.ret
        /\ reflection.ret.success = (Len(reflection.responses) = STAGES)
        /\ \A k \in 1..Len(reflection.responses) :
              reflection.ret[ResultKeys[k]] = reflection.responses[k]
        /\ reflection.end_trace_calls = 1

\* The text of the result of request_human_review.
ReviewText == review.result.content[1].text

SaysApproved == Len(ReviewText) >= 3 /\ ReviewText[3].value = "Yes"

\* The rating a typed string stands for.
TypedRating(typed) ==
    LET str == Strip(typed) IN
    IF str # <<>> /\ \A i \in 1..Len(str) :
                        \E n \in 1..10 : DecimalDigits[n] = str[i]
    THEN IF IntOf(str) < 1 THEN 1 ELSE IF IntOf(str) > 5 THEN 5
         ELSE IntOf(str)
    ELSE 3

InteractiveReview ==
    /\ Len(review.inputs) = 4
    /\ review.rating_int \in 1..5
    /\ review.rating_int = TypedRating(review.inputs[1])
    /\ ReviewText[2].value = review.rating_int
    /\ SaysApproved = (review.rating_int >= 4)

AutoReview ==
    /\ review.inputs = <<>>
    /\ ReviewText[2].value = 3
    /\ ~SaysApproved

\* C25, as claimed: in interactive mode every rating input other than the
\* string "skip" gives an integer rating in 1..5 and a text that says
\* "Approved: Yes" exactly when the rating is at least 4, and "skip" gives
\* the auto-approved result with one input read; with AUTO_FEEDBACK no
\* input is read and the result is rating 3, not approved.
C25_ApprovalByRating ==
    review.pc = "returned" =>
        IF review.auto_feedback THEN AutoReview
        ELSE IF review.inputs[1] = <<"s", "k", "i", "p">>
        THEN Len(review.inputs) = 1 /\ ReviewText = SkipResponse
        ELSE InteractiveReview

\* C25, amended: the skip command is the rating input that is "skip" once
\* stripped and lower-cased; every other rating input gives an integer
\* rating in 1..5 and a text that says "Approved: Yes" exactly when the
\* rating is at least 4.
C25_ApprovalByRatingOrSkip ==
    review.pc = "returned" =>
        IF review.auto_feedback THEN AutoReview
        ELSE IF Lower(Strip(review.inputs[1])) = <<"s", "k", "i", "p">>
        THEN Len(review.inputs) = 1 /\ ReviewText = SkipResponse
        ELSE InteractiveReview

C25_Witness ==
    /\ review.pc = "returned"
    /\ ~review.auto_feedback
    /\ review.inputs[1] = <<" ", "5">>
    /\ review.rating_int = 5
    /\ SaysApproved
    /\ Len(ReviewText) = 6

\* The name missing_fields has for a key of the profile.
ReportedAs(key) == IF key = "experiences" THEN "work_experience" ELSE key

\* The checked keys that a profile does not have or has empty.
AbsentOrEmpty(data) ==
    {key \in {"first_name", "experiences", "headline", "education",
              "location"} :
        key \notin data.has \/ data[key] = Falsy(key)}

Elements(seq) == {seq[i] : i \in 1..Len(seq)}

\* C26: for every profile analyze_profile_quality returns as
\* missing_fields the absent or empty keys among first_name, experiences
\* (as "work_experience"), headline, education and location, each once; a
\* completeness_score of 20 for each of the five that is there; the
\* data_quality "high" from 80, "medium" from 50, "low" below, and never
\* "unknown"; and the "Profile data is incomplete" suggestion exactly when
\* the quality is "low".
C26_QualityOfProfile ==
    (fetch.pc = "returned" /\ Fetched(fetch.outcome)) =>
        LET data == fetch.outcome.data
            quality == fetch.result.content[1].text[2].profile_quality
            missing == quality.missing_fields
            score == quality.completeness_score
        IN /\ Elements(missing)
                 = {ReportedAs(key) : key \in AbsentOrEmpty(data)}
           /\ Len(missing) = Cardinality(AbsentOrEmpty(data))
           /\ score = 20 * (5 - Cardinality(AbsentOrEmpty(data)))
           /\ quality.data_quality = "high" <=> score >= 80
           /\ quality.data_quality = "medium" <=> (50 <= score /\ score < 80)
           /\ quality.data_quality \in {"high", "medium", "low"}
           /\ ("Profile data is incomplete - consider alternatives"
                  \in Elements(quality.suggestions))
                 <=> quality.data_quality = "low"

C26_Witness ==
    /\ fetch.pc = "returned"
    /\ Fetched(fetch.outcome)
    /\ fetch.outcome.data.has = {"first_name", "experiences", "headline",
                                 "education"}
    /\ fetch.outcome.data.headline = ""
    /\ fetch.outcome.data.experiences # <<>>
    /\ fetch.result.content[1].text[2].profile_quality.completeness_score
          = 60
    /\ fetch.result.content[1].text[2].profile_quality.data_quality
          = "medium"

\* The profile has the fields extract_profile_data reads directly.
RequiredFieldsPresent(p) ==
    /\ {"first_name", "experiences"} \subseteq p.has
    /\ p.experiences # <<>>
    /\ {"company", "description"} \subseteq DOMAIN p.experiences[1]

\* The fetch got status 200 and a profile with the required fields.
FetchedRequired ==
    /\ Len(chain.gets) = 1
    /\ chain.gets[1].kind = "response"
    /\ chain.gets[1].status_code = 200
    /\ chain.gets[1].json # <<>>
    /\ RequiredFieldsPresent(chain.gets[1].json[1])

\* C27: chained_workflow calls fetch_linkedin_profile, extract_profile_data
\* and generate_outreach_message in that order, each at most once; a step
\* runs only when all the steps before it succeeded, so the generation
\* service is not called after a non-200 fetch or with a required field
\* missing; and it returns success True with the message exactly when the
\* three steps succeeded, and success False with the error text otherwise.
C27_StepsInOrderNoRecovery ==
    chain.pc # "idle" =>
        /\ Len(chain.calls) <= 3
        /\ chain.calls = SubSeq(ChainSteps, 1, Len(chain.calls))
        /\ chain.succeeded \in {Len(chain.calls), Len(chain.calls) - 1}
        /\ chain.pc = "except" => chain.succeeded < Len(chain.calls)
        /\ chain.succeeded < Len(chain.calls)
              => chain.pc \in {"except", "returned"}
        /\ chain.pc \in {"fetch", "extract", "generate", "success"}
              => chain.calls = SubSeq(ChainSteps, 1, chain.succeeded)
        /\ Len(chain.prompts) <= 1
        /\ Len(chain.prompts) = 1 => FetchedRequired
        /\ chain.pc = "returned" =>
              IF chain.succeeded = 3
              THEN chain.ret = [success |-> TRUE,
                                message |-> chain.message,
                                url |-> chain.linkedin_url]
              ELSE /\ chain.ret = [success |-> FALSE,
                                   error |-> chain.error,
                                   url |-> chain.linkedin_url]
                   /\ chain.error # ""

C27_Witness ==
    /\ chain.pc = "returned"
    /\ chain.calls = SubSeq(ChainSteps, 1, 2)
    /\ chain.gets[1].status_code = 200
    /\ chain.ret.success = FALSE
    /\ chain.ret.error = "'description'"
    /\ chain.prompts = <<>>

\* The metrics of two calls agree on every key but "thoughts".
SameButThoughts(m, n) ==
    /\ DOMAIN m = DOMAIN n
    /\ \A key \in DOMAIN m \ {"thoughts"} : m[key] = n[key]

\* C28: called against the same responses and tool outcomes, run_agent
\* with debug and run_agent without it make the same create calls and the
\* same execute_tool calls, build the same messages, are at the same place
\* and return the same turns, api_calls, tool_calls, token totals, cost and
\* final_response; the metrics differ in "thoughts" only, which stays
\* empty without debug.
C28_DebugDoesNotInfluence ==
    twin.pc = "running" =>
        /\ twin.on.pc = twin.off.pc
        /\ twin.on.turn = twin.off.turn
        /\ twin.on.requests = twin.off.requests
        /\ twin.on.executed = twin.off.executed
        /\ twin.on.messages = twin.off.messages
        /\ twin.on.text_response = twin.off.text_response
        /\ SameButThoughts(twin.on.metrics, twin.off.metrics)
        /\ twin.off.metrics.thoughts = <<>>
        /\ twin.on.ret.kind = twin.off.ret.kind
        /\ twin.on.ret.kind = "return"
              => /\ SameButThoughts(twin.on.ret.value, twin.off.ret.value)
                 /\ twin.off.ret.value.thoughts = <<>>

C28_Witness ==
    /\ twin.pc = "running"
    /\ twin.on.pc = "done"
    /\ twin.off.pc = "done"
    /\ twin.on.ret.value.turns = 2
    /\ Len(twin.on.executed) = 1
    /\ Len(twin.on.ret.value.thoughts) = 2
    /\ twin.off.ret.value.thoughts = <<>>

====
